---------------------------- MODULE Spec2Model ----------------------------
(***************************************************************************)
(* A model of the Attributes controller (src/src/attr.rs) and of the       *)
(* pixel-row source DynamicRows (src/src/rows.rs) of libimagequant.        *)
(*                                                                         *)
(* Three specifications share the variables:                               *)
(*   Spec      one Attributes value and its setters                        *)
(*   SpecRows  one DynamicRows image, its iterators and row callback       *)
(*   SpecDrop  several Attributes handles, their clones and their drop     *)
(***************************************************************************)
EXTENDS Integers, Sequences, FiniteSets, TLC

VARIABLES
    attr,       \* the Attributes value (Spec)
    accepted,   \* history: the argument of the last accepted call of each setter
    res,        \* history: the last call on attr, what it returned, and whether
                \* its argument was within the documented range
    img,        \* the DynamicRows value (SpecRows)
    iter,       \* the live DynamicRowsIter borrowing img, or NoIter
    cbLog,      \* history: rows the row callback was invoked with by the last call
    released,   \* history: free_histogram_inputs has replaced the pixel source
    rres,       \* history: the last call on img / iter, what it returned, where
                \* the row it returned came from, the ownership flags it was given
    handles,    \* the Attributes handles and their lifecycle (SpecDrop)
    events      \* history: per handle, the callback invocations made on its behalf

attrVars == <<attr, accepted, res>>
rowsVars == <<img, iter, cbLog, released, rres>>
dropVars == <<handles, events>>
vars == <<attr, accepted, res, img, iter, cbLog, released, rres, handles, events>>

Max(a, b) == IF a >= b THEN a ELSE b
Min(a, b) == IF a <= b THEN a ELSE b

(***************************************************************************)
(* Attributes (attr.rs)                                                    *)
(***************************************************************************)

\* quant::quality_to_mse, as the design document gives it:
\* ((100-q)/100)^2 * C, kept here in units of C/10000.
quality_to_mse(q) == (100 - q) * (100 - q)

\* The struct literal of Attributes::new, before its set_speed(4).
AttributesLiteral ==
    [ magic_header             |-> "LIQ_ATTR_MAGIC",
      target_mse               |-> 0,
      max_mse                  |-> << >>,     \* Option<f64>: << >> is None
      max_colors               |-> 256,
      last_index_transparent   |-> FALSE,
      kmeans_iteration_limit   |-> [num |-> 0, den |-> 1],
      max_histogram_entries    |-> 0,
      min_posterization_output |-> 0,
      min_posterization_input  |-> 0,
      kmeans_iterations        |-> 0,
      feedback_loop_trials     |-> 0,
      use_contrast_maps        |-> FALSE,
      use_dither_map           |-> "None",
      speed                    |-> 0,
      progress_stage1          |-> 0,
      progress_stage2          |-> 0,
      progress_stage3          |-> 0,
      progress_callback        |-> "None",
      log_callback             |-> "None",
      log_flush_callback       |-> "None" ]

set_max_colors_byte(self, colors) ==
    IF ~(colors \in 2..256)
    THEN [self |-> self, ret |-> "LIQ_VALUE_OUT_OF_RANGE"]
    ELSE [self |-> [self EXCEPT !.max_colors = colors % 256], ret |-> "LIQ_OK"]

\* set_max_colors(&mut self, colors: u32): PalLen holds 256, a 16-bit length.
set_max_colors(self, colors) ==
    IF ~(colors \in 2..256)
    THEN [self |-> self, ret |-> "LIQ_VALUE_OUT_OF_RANGE"]
    ELSE [self |-> [self EXCEPT !.max_colors = colors % 65536], ret |-> "LIQ_OK"]

\* set_min_posterization(&mut self, value: u8)
set_min_posterization(self, value) ==
    IF ~(value \in 0..4)
    THEN [self |-> self, ret |-> "LIQ_VALUE_OUT_OF_RANGE"]
    ELSE [self |-> [self EXCEPT !.min_posterization_output = value], ret |-> "LIQ_OK"]

\* set_quality(&mut self, minimum: u8, target: u8)
set_quality(self, minimum, target) ==
    IF ~(target \in 0..100) \/ target < minimum
    THEN [self |-> self, ret |-> "LIQ_VALUE_OUT_OF_RANGE"]
    ELSE [self |-> [self EXCEPT !.target_mse = quality_to_mse(target),
                                !.max_mse = <<quality_to_mse(minimum)>>],
          ret |-> "LIQ_OK"]

\* set_speed: let mut iterations = (8 - value).max(0) as u16;
\*            iterations += iterations * iterations / 2;
BaseIterationsPrecedence(value) ==
    LET iterations == Max(8 - value, 0) % 65536
    IN  ((iterations + iterations * iterations) \div 2) % 65536

BaseIterations(value) ==
    LET iterations == Max(8 - value, 0) % 65536
    IN  (iterations + (iterations * iterations) \div 2) % 65536

\* set_speed: self.kmeans_iteration_limit = 1. / ((1 << (23 - value)) as f64),
\* an exact power of two, kept as a fraction
IterationLimit(value) == [num |-> 1, den |-> 2 ^ (23 - value)]

\* set_speed: self.feedback_loop_trials = (56 - 9 * value).max(0) as u16
BaseTrials(value) == Max(56 - 9 * value, 0) % 65536

\* set_speed: ((1 << 17) + (1 << 18) * (10 - value)) as u32, computed in i32
\* where it stays below 2^22
MaxHistogramEntries(value) == 2 ^ 17 + (2 ^ 18) * (10 - value)

\* set_speed: the dither map mode, Enabled up to speed 6 and Always below 3
DitherMapOffByOne(value) ==
    LET first == IF value <= 6 THEN "Enabled" ELSE "None"
    IN  IF first # "None" /\ value <= 3 THEN "Always" ELSE first

DitherMapOf(value) ==
    LET first == IF value <= 6 THEN "Enabled" ELSE "None"
    IN  IF first # "None" /\ value < 3 THEN "Always" ELSE first

ProgressStage2Added(stage1, stage3) == (((100 - stage1) % 256) + stage3) % 256

\* set_speed: self.progress_stage2 = 100 - self.progress_stage1 - self.progress_stage3,
\* in u8, left to right
ProgressStage2(stage1, stage3) == (((100 - stage1) % 256) - stage3) % 256

\* set_speed(&mut self, value: i32) past its range check. The progress weights
\* are u8: their arithmetic wraps at 2^8 in a release build.
set_speed_fields(self, value) ==
    LET trials   == BaseTrials(value)
        dither   == DitherMapOf(value)
        contrast == (value <= 7) \/ dither # "None"
        stage1a  == IF contrast THEN 20 ELSE 8
        stage1   == IF trials < 2 THEN (stage1a + 30) % 256 ELSE stage1a
        stage3   == (50 \div (1 + value)) % 256
        stage2   == ProgressStage2(stage1, stage3)
    IN  [self EXCEPT
           !.kmeans_iterations = BaseIterations(value),
           !.kmeans_iteration_limit = IterationLimit(value),
           !.feedback_loop_trials = trials,
           !.max_histogram_entries = MaxHistogramEntries(value),
           !.min_posterization_input = IF value >= 8 THEN 1 ELSE 0,
           !.use_dither_map = dither,
           !.use_contrast_maps = contrast,
           !.speed = value % 256,
           !.progress_stage1 = stage1,
           !.progress_stage3 = stage3,
           !.progress_stage2 = stage2]

set_speed_accepts_zero(self, value) ==
    IF ~(value \in 0..10)
    THEN [self |-> self, ret |-> "LIQ_VALUE_OUT_OF_RANGE"]
    ELSE [self |-> set_speed_fields(self, value), ret |-> "LIQ_OK"]

\* set_speed(&mut self, value: i32) -> liq_error
set_speed(self, value) ==
    IF ~(value \in 1..10)
    THEN [self |-> self, ret |-> "LIQ_VALUE_OUT_OF_RANGE"]
    ELSE [self |-> set_speed_fields(self, value), ret |-> "LIQ_OK"]

\* set_log_callback / set_log_flush_callback / set_progress_callback store
\* Some(Arc::new(callback)): the field names the callback object
set_log_callback(self, callback) == [self EXCEPT !.log_callback = callback]
set_log_flush_callback(self, callback) == [self EXCEPT !.log_flush_callback = callback]
set_progress_callback(self, callback) == [self EXCEPT !.progress_callback = callback]

\* verbose_print(&self, msg): the log callback invocations it makes
verbose_print(self) ==
    IF self.log_callback # "None" THEN <<self.log_callback>> ELSE << >>

\* verbose_printf_flush(&self): the flush callback invocations it makes
verbose_printf_flush(self) ==
    IF self.log_flush_callback # "None" THEN <<self.log_flush_callback>> ELSE << >>

\* impl Drop for Attributes: flush, then mark the header freed
drop_without_flush(self) ==
    [self |-> [self EXCEPT !.magic_header = "LIQ_FREED_MAGIC"], flush |-> << >>]

drop(self) ==
    [self |-> [self EXCEPT !.magic_header = "LIQ_FREED_MAGIC"],
     flush |-> verbose_printf_flush(self)]

\* #[derive(Clone)]: every field copied, the Arc'd callback objects shared
clone(self) == self

\* Attributes::new(): the literal, then set_speed(4)
AttributesNew == set_speed(AttributesLiteral, 4).self

\* getters
min_posterization(self) == self.min_posterization_output
speed(self) == self.speed
max_colors(self) == self.max_colors
posterize_bits(self) == Max(self.min_posterization_output, self.min_posterization_input)

ReduceAtInclusive(x, hist_items, threshold) ==
    IF hist_items >= threshold THEN ((x * 3 + 3) % 65536) \div 4 ELSE x

ReduceAtSwapped(x, hist_items, threshold) ==
    IF hist_items > threshold THEN ((x * 4 + 3) % 65536) \div 3 ELSE x

\* one size threshold of feedback_loop_trials / kmeans_iterations (u16 arithmetic)
ReduceAt(x, hist_items, threshold) ==
    IF hist_items > threshold THEN ((x * 3 + 3) % 65536) \div 4 ELSE x

\* feedback_loop_trials(&self, hist_items: usize) -> u16
feedback_loop_trials(self, hist_items) ==
    LET t1 == ReduceAt(self.feedback_loop_trials, hist_items, 5000)
        t2 == ReduceAt(t1, hist_items, 25000)
        t3 == ReduceAt(t2, hist_items, 50000)
        t4 == ReduceAt(t3, hist_items, 100000)
    IN  t4

kmeans_iterations_when_known(self, hist_items_len, palette_error_is_known) ==
    LET i1 == ReduceAt(self.kmeans_iterations, hist_items_len, 5000)
        i2 == ReduceAt(i1, hist_items_len, 25000)
        i3 == ReduceAt(i2, hist_items_len, 50000)
        i4 == ReduceAt(i3, hist_items_len, 100000)
        limit == IF hist_items_len > 100000
                 THEN [num |-> self.kmeans_iteration_limit.num * 2,
                       den |-> self.kmeans_iteration_limit.den]
                 ELSE self.kmeans_iteration_limit
        iterations == IF i4 = 0 /\ palette_error_is_known /\ self.max_mse # << >>
                      THEN 1 ELSE i4
    IN  [iterations |-> iterations, iteration_limit |-> limit]

\* kmeans_iterations(&self, hist_items_len, palette_error_is_known) -> (u16, f64)
kmeans_iterations(self, hist_items_len, palette_error_is_known) ==
    LET i1 == ReduceAt(self.kmeans_iterations, hist_items_len, 5000)
        i2 == ReduceAt(i1, hist_items_len, 25000)
        i3 == ReduceAt(i2, hist_items_len, 50000)
        i4 == ReduceAt(i3, hist_items_len, 100000)
        limit == IF hist_items_len > 100000
                 THEN [num |-> self.kmeans_iteration_limit.num * 2,
                       den |-> self.kmeans_iteration_limit.den]
                 ELSE self.kmeans_iteration_limit
        iterations == IF i4 = 0 /\ ~palette_error_is_known /\ self.max_mse # << >>
                      THEN 1 ELSE i4
    IN  [iterations |-> iterations, iteration_limit |-> limit]


(***************************************************************************)
(* Spec: one Attributes value, from Attributes::new(), under its setters   *)
(***************************************************************************)

\* arguments tried: each setter's range, its edges and values beyond them
ColorsInputs == {0, 1, 2, 256, 257}
PosterizationInputs == {0, 1, 4, 5, 255}
MinimumInputs == {0, 70, 101}
TargetInputs == {0, 99, 101}
SpeedInputs == (0..11) \cup {-1}
\* the callback object a caller installs (Some(Arc::new(callback)))
CallbackInputs == {"cb1"}

\* no call accepted yet: << >>; otherwise <<argument>>
NoneAccepted == [max_colors |-> << >>, speed |-> << >>, min_posterization |-> << >>,
                 quality |-> << >>]

InitAttr ==
    /\ attr = AttributesNew
    /\ accepted = NoneAccepted
    /\ res = [op |-> "new", ret |-> "LIQ_OK", in_range |-> TRUE]

IdleRows ==
    /\ img = [width |-> 0, height |-> 0, f_pixels |-> << >>, pixels |-> [kind |-> "None"]]
    /\ iter = << >>
    /\ cbLog = << >>
    /\ released = FALSE
    /\ rres = [op |-> "none", ret |-> "none", from |-> "none", flags |-> {}]

IdleDrop ==
    /\ handles = << >>
    /\ events = << >>

Init == InitAttr /\ IdleRows /\ IdleDrop

SetMaxColors(colors) ==
    LET r == set_max_colors(attr, colors) IN
    /\ attr' = r.self
    /\ res' = [op |-> "set_max_colors", ret |-> r.ret, in_range |-> colors \in 2..256]
    /\ accepted' = IF r.ret = "LIQ_OK" THEN [accepted EXCEPT !.max_colors = <<colors>>]
                   ELSE accepted
    /\ UNCHANGED <<rowsVars, dropVars>>

SetMinPosterization(value) ==
    LET r == set_min_posterization(attr, value) IN
    /\ attr' = r.self
    /\ res' = [op |-> "set_min_posterization", ret |-> r.ret, in_range |-> value \in 0..4]
    /\ accepted' = IF r.ret = "LIQ_OK" THEN [accepted EXCEPT !.min_posterization = <<value>>]
                   ELSE accepted
    /\ UNCHANGED <<rowsVars, dropVars>>

SetQuality(minimum, target) ==
    LET r == set_quality(attr, minimum, target) IN
    /\ attr' = r.self
    /\ res' = [op |-> "set_quality", ret |-> r.ret,
               in_range |-> minimum <= target /\ target <= 100]
    /\ accepted' = IF r.ret = "LIQ_OK" THEN [accepted EXCEPT !.quality = <<minimum, target>>]
                   ELSE accepted
    /\ UNCHANGED <<rowsVars, dropVars>>

SetSpeed(value) ==
    LET r == set_speed(attr, value) IN
    /\ attr' = r.self
    /\ res' = [op |-> "set_speed", ret |-> r.ret, in_range |-> value \in 1..10]
    /\ accepted' = IF r.ret = "LIQ_OK" THEN [accepted EXCEPT !.speed = <<value>>]
                   ELSE accepted
    /\ UNCHANGED <<rowsVars, dropVars>>

\* set_last_index_transparent(&mut self, is_last: bool)
SetLastIndexTransparent(is_last) ==
    /\ attr' = [attr EXCEPT !.last_index_transparent = is_last]
    /\ res' = [op |-> "set_last_index_transparent", ret |-> "unit", in_range |-> TRUE]
    /\ UNCHANGED <<accepted, rowsVars, dropVars>>

\* set_log_callback / set_log_flush_callback / set_progress_callback
SetLogCallback(callback) ==
    /\ attr' = set_log_callback(attr, callback)
    /\ res' = [op |-> "set_log_callback", ret |-> "unit", in_range |-> TRUE]
    /\ UNCHANGED <<accepted, rowsVars, dropVars>>

SetLogFlushCallback(callback) ==
    /\ attr' = set_log_flush_callback(attr, callback)
    /\ res' = [op |-> "set_log_flush_callback", ret |-> "unit", in_range |-> TRUE]
    /\ UNCHANGED <<accepted, rowsVars, dropVars>>

SetProgressCallback(callback) ==
    /\ attr' = set_progress_callback(attr, callback)
    /\ res' = [op |-> "set_progress_callback", ret |-> "unit", in_range |-> TRUE]
    /\ UNCHANGED <<accepted, rowsVars, dropVars>>

Next ==
    \/ \E colors \in ColorsInputs : SetMaxColors(colors)
    \/ \E value \in PosterizationInputs : SetMinPosterization(value)
    \/ \E minimum \in MinimumInputs, target \in TargetInputs : SetQuality(minimum, target)
    \/ \E value \in SpeedInputs : SetSpeed(value)
    \/ \E is_last \in BOOLEAN : SetLastIndexTransparent(is_last)
    \/ \E callback \in CallbackInputs : SetLogCallback(callback)
    \/ \E callback \in CallbackInputs : SetLogFlushCallback(callback)
    \/ \E callback \in CallbackInputs : SetProgressCallback(callback)

Spec == Init /\ [][Next]_vars


(***************************************************************************)
(* Claims on Spec                                                          *)
(***************************************************************************)

\* histogram sizes around each threshold of feedback_loop_trials
HistSizes == {0, 1, 5000, 5001, 25000, 25001, 50000, 50001, 100000, 100001, 1000000}

\* C1: a call of set_max_colors, set_min_posterization, set_quality or set_speed
\* whose argument is outside its range returns ValueOutOfRange, and every call
\* that returns ValueOutOfRange leaves every field of the Attributes as it was.
C1_RejectedSetterChangesNothing ==
    [][ /\ ~res'.in_range => res'.ret = "LIQ_VALUE_OUT_OF_RANGE"
        /\ res'.ret = "LIQ_VALUE_OUT_OF_RANGE" => attr' = attr ]_vars

\* a rejected set_quality on an Attributes that is no longer the default one
C1_Witness ==
    /\ res = [op |-> "set_quality", ret |-> "LIQ_VALUE_OUT_OF_RANGE", in_range |-> FALSE]
    /\ attr.speed = 9
    /\ attr.max_colors = 2
    /\ attr.log_callback # "None"

\* C2: the getters return the argument of the last accepted call of their
\* setter, or the defaults 256, 4 and 0; all stay within their ranges, and
\* posterize_bits is within 0..4 and not below min_posterization.
C2_GettersReturnLastAccepted ==
    /\ max_colors(attr) = IF accepted.max_colors = << >> THEN 256 ELSE accepted.max_colors[1]
    /\ speed(attr) = IF accepted.speed = << >> THEN 4 ELSE accepted.speed[1]
    /\ min_posterization(attr) =
         IF accepted.min_posterization = << >> THEN 0 ELSE accepted.min_posterization[1]
    /\ max_colors(attr) \in 2..256
    /\ speed(attr) \in 1..10
    /\ min_posterization(attr) \in 0..4
    /\ posterize_bits(attr) \in 0..4
    /\ posterize_bits(attr) >= min_posterization(attr)

\* every setter has accepted a call, and the last call was a rejected one
C2_Witness ==
    /\ accepted.max_colors = <<256>>
    /\ accepted.speed = <<9>>
    /\ accepted.min_posterization = <<4>>
    /\ res = [op |-> "set_max_colors", ret |-> "LIQ_VALUE_OUT_OF_RANGE", in_range |-> FALSE]

\* C3 as stated: with no set_speed accepted since new(), feedback_loop_trials(n)
\* is at most 6 for every histogram size n.
C3_TrialsAtMostSix ==
    accepted.speed = << >> =>
        \A n \in HistSizes : feedback_loop_trials(attr, n) <= 6

\* C3 as amended: with no set_speed accepted since new(), feedback_loop_trials(n)
\* is at most 20 for every histogram size n, and is 20 up to 5000 entries.
C3_TrialsAtMostTwenty ==
    accepted.speed = << >> =>
        \A n \in HistSizes :
            /\ feedback_loop_trials(attr, n) <= 20
            /\ n <= 5000 => feedback_loop_trials(attr, n) = 20

\* other setters were called, set_speed was only ever rejected
C3_Witness ==
    /\ accepted.speed = << >>
    /\ accepted.max_colors = <<2>>
    /\ res = [op |-> "set_speed", ret |-> "LIQ_VALUE_OUT_OF_RANGE", in_range |-> FALSE]
    /\ feedback_loop_trials(attr, 100001) = 7

\* C9: after set_speed(s) is accepted, the base k-means iteration count is
\* k + k*k/2 with k = max(8 - s, 0), max_histogram_entries is
\* 2^17 + (10 - s) * 2^18, and the iteration limit is 1 / 2^(23 - s),
\* whatever was set before.
C9_SpeedDerivedValues ==
    \A s \in 1..10 :
        accepted.speed = <<s>> =>
            LET k == Max(8 - s, 0)
                km == kmeans_iterations(attr, 0, TRUE)
            IN  /\ attr.kmeans_iterations = k + (k * k) \div 2
                /\ km.iterations = k + (k * k) \div 2
                /\ attr.max_histogram_entries = 2 ^ 17 + (10 - s) * 2 ^ 18
                /\ km.iteration_limit.num * 2 ^ (23 - s) = km.iteration_limit.den
                /\ km.iteration_limit = attr.kmeans_iteration_limit

\* speed 5 accepted: k = 3, so 3 + 3*3/2 = 7 iterations
C9_Witness ==
    /\ accepted.speed = <<5>>
    /\ res = [op |-> "set_speed", ret |-> "LIQ_OK", in_range |-> TRUE]
    /\ attr.kmeans_iterations = 7
    /\ attr.max_histogram_entries = 1441792

\* C10: after set_speed(s) is accepted, the dither map is enabled exactly when
\* s <= 6, is Always exactly when s <= 2, is None exactly when s >= 7, and
\* contrast maps are used whenever the dither map is enabled.
C10_DitherMapBySpeed ==
    \A s \in 1..10 :
        accepted.speed = <<s>> =>
            /\ attr.use_dither_map \in {"Enabled", "Always"} <=> s <= 6
            /\ attr.use_dither_map = "Always" <=> s <= 2
            /\ attr.use_dither_map = "None" <=> s >= 7
            /\ attr.use_dither_map # "None" => attr.use_contrast_maps

\* speed 2 accepted: the map is applied always, with contrast maps
C10_Witness ==
    /\ accepted.speed = <<2>>
    /\ attr.use_dither_map = "Always"
    /\ attr.use_contrast_maps

\* the histogram sizes at which the derived counts are reduced
SizeThresholds == {5000, 25000, 50000, 100000}

\* f(x) = (3x + 3) / 4 applied k times
RECURSIVE ThreeQuarters(_, _)
ThreeQuarters(x, k) ==
    IF k = 0 THEN x ELSE ThreeQuarters((3 * x + 3) \div 4, k - 1)

\* C11: for the base values b left by set_speed and every histogram size n,
\* feedback_loop_trials(n) and the count of kmeans_iterations(n, true) are f
\* applied to b once per threshold of {5000, 25000, 50000, 100000} that n
\* strictly exceeds, f(x) = (3x + 3) / 4; so the result does not increase with
\* n, never exceeds b, drops at a crossed threshold only from a value of at
\* least 4, and is 0 only if b is 0. The k-means iteration limit is doubled
\* exactly when n > 100000.
C11_ReducedOncePerExceededThreshold ==
    /\ \A n \in HistSizes :
         LET k      == Cardinality({t \in SizeThresholds : n > t})
             trials == feedback_loop_trials(attr, n)
             km     == kmeans_iterations(attr, n, TRUE)
         IN  /\ trials = ThreeQuarters(attr.feedback_loop_trials, k)
             /\ km.iterations = ThreeQuarters(attr.kmeans_iterations, k)
             /\ trials <= attr.feedback_loop_trials
             /\ km.iterations <= attr.kmeans_iterations
             /\ trials = 0 => attr.feedback_loop_trials = 0
             /\ km.iterations = 0 => attr.kmeans_iterations = 0
             /\ km.iteration_limit.den = attr.kmeans_iteration_limit.den
             /\ km.iteration_limit.num =
                  IF n > 100000 THEN 2 * attr.kmeans_iteration_limit.num
                  ELSE attr.kmeans_iteration_limit.num
    /\ \A m, n \in HistSizes :
         m <= n =>
           /\ feedback_loop_trials(attr, n) <= feedback_loop_trials(attr, m)
           /\ kmeans_iterations(attr, n, TRUE).iterations
                <= kmeans_iterations(attr, m, TRUE).iterations
    /\ \A t \in SizeThresholds :
         /\ feedback_loop_trials(attr, t + 1) < feedback_loop_trials(attr, t)
              => feedback_loop_trials(attr, t) >= 4
         /\ kmeans_iterations(attr, t + 1, TRUE).iterations
              < kmeans_iterations(attr, t, TRUE).iterations
              => kmeans_iterations(attr, t, TRUE).iterations >= 4

\* speed 1 accepted: 47 trials and 31 iterations, reduced four times past
\* 100000 histogram entries to 16 and 11, with the limit doubled
C11_Witness ==
    /\ accepted.speed = <<1>>
    /\ feedback_loop_trials(attr, 100000) = 21
    /\ feedback_loop_trials(attr, 100001) = 16
    /\ kmeans_iterations(attr, 100001, TRUE).iterations = 11
    /\ kmeans_iterations(attr, 100001, TRUE).iteration_limit.num = 2

\* C12: after any accepted set_speed (speeds 1..10) and after new(), the three
\* progress weights sum to exactly 100, each lies in 0..100, and the u8
\* subtractions computing progress_stage2 never go below zero.
C12_ProgressWeightsSumTo100 ==
    /\ attr.speed \in 1..10
    /\ attr.progress_stage1 \in 0..100
    /\ attr.progress_stage2 \in 0..100
    /\ attr.progress_stage3 \in 0..100
    /\ attr.progress_stage1 + attr.progress_stage2 + attr.progress_stage3 = 100
    /\ 100 - attr.progress_stage1 - attr.progress_stage3 >= 0
    /\ attr.progress_stage2 = 100 - attr.progress_stage1 - attr.progress_stage3

\* speed 7 accepted: no feedback trials left, so stage 1 takes 20 + 30
C12_Witness ==
    /\ accepted.speed = <<7>>
    /\ attr.feedback_loop_trials = 0
    /\ attr.progress_stage1 = 50
    /\ attr.progress_stage2 = 44
    /\ attr.progress_stage3 = 6

\* C13: kmeans_iterations(n, known) returns the count 0 only if the palette
\* error is known or no set_quality call has been accepted; when the derived
\* count is 0 (speed >= 8), the error is not known and a set_quality call has
\* been accepted, even one with minimum 0, it returns exactly 1.
C13_QualityForcesOneIteration ==
    \A n \in HistSizes :
      /\ \A known \in BOOLEAN :
           kmeans_iterations(attr, n, known).iterations = 0
             => known \/ accepted.quality = << >>
      /\ kmeans_iterations(attr, n, TRUE).iterations = 0 <=> speed(attr) >= 8
      /\ (speed(attr) >= 8 /\ accepted.quality # << >>)
           => kmeans_iterations(attr, n, FALSE).iterations = 1

\* speed 9 and set_quality(0, 99) accepted: the derived count is 0 and an
\* unknown palette error raises it to 1
C13_Witness ==
    /\ accepted.speed = <<9>>
    /\ accepted.quality = <<0, 99>>
    /\ kmeans_iterations(attr, 1, TRUE).iterations = 0
    /\ kmeans_iterations(attr, 1, FALSE).iterations = 1


(***************************************************************************)
(* DynamicRows (rows.rs)                                                   *)
(***************************************************************************)

\* const LIQ_HIGH_MEMORY_LIMIT: usize = 1 << 26
LIQ_HIGH_MEMORY_LIMIT == 2 ^ 26

\* std::mem::size_of::<f_pixel>(): pal::f_pixel has four f32 components
SizeOfFPixel == 16

\* seacow::SeaCow: a slice that is either borrowed or owned. make_owned turns
\* a borrowed one into an owned one.
SeaCowBorrowed(slice) == [slice |-> slice, owned |-> FALSE]
SeaCowOwned(slice) == [slice |-> slice, owned |-> TRUE]
make_owned(cow) == [cow EXCEPT !.owned = TRUE]

\* SeaCow::c_owned(ptr, len): len pixels at ptr, owned
c_owned(ptr, len) == [slice |-> [ptr |-> ptr, len |-> len], owned |-> TRUE]

\* Option<T>: << >> is None, <<x>> is Some(x)
None == << >>
Some(x) == <<x>>

\* PixelsSource::Callback(cb) and PixelsSource::Pixels { rows, pixels }
CallbackSource == [kind |-> "Callback"]
PixelsSource(rows, pixels) == [kind |-> "Pixels", rows |-> rows, pixels |-> pixels]

\* rows.as_slice().iter().copied().min() of a non-empty table of row addresses
RECURSIVE MinOf(_)
MinOf(ptrs) ==
    IF Len(ptrs) = 1 THEN ptrs[1] ELSE Min(ptrs[1], MinOf(Tail(ptrs)))

\* DynamicRows::row_rgba(&self, temp_row, row): the row table is indexed (out of
\* bounds panics), or the callback is invoked with the row number
row_rgba(self, row) ==
    IF self.pixels.kind = "Pixels"
    THEN [cb |-> << >>, panic |-> row >= Len(self.pixels.rows.slice)]
    ELSE [cb |-> <<row>>, panic |-> FALSE]

\* fn should_use_low_memory(&self) -> bool
should_use_low_memory_bytes(self) ==
    self.width * self.height > LIQ_HIGH_MEMORY_LIMIT

should_use_low_memory(self) ==
    self.width * self.height > LIQ_HIGH_MEMORY_LIMIT \div SizeOfFPixel

\* the loop of prepare_generated_image from `row` on: row_rgba then
\* convert_row_to_f for each chunk of width float pixels, in ascending order
RECURSIVE ConvertRowsFromTwice(_, _)
ConvertRowsFromTwice(self, row) ==
    IF row >= self.height THEN [cb |-> << >>, panic |-> FALSE]
    ELSE LET r == row_rgba(self, row) IN
         IF r.panic THEN [cb |-> r.cb, panic |-> TRUE]
         ELSE LET rest == ConvertRowsFromTwice(self, row + 1)
              IN  [cb |-> r.cb \o r.cb \o rest.cb, panic |-> rest.panic]

RECURSIVE ConvertRowsFrom(_, _)
ConvertRowsFrom(self, row) ==
    IF row >= self.height THEN [cb |-> << >>, panic |-> FALSE]
    ELSE LET r == row_rgba(self, row) IN
         IF r.panic THEN [cb |-> r.cb, panic |-> TRUE]
         ELSE LET rest == ConvertRowsFrom(self, row + 1)
              IN  [cb |-> r.cb \o rest.cb, panic |-> rest.panic]

\* fn prepare_generated_image(&mut self, temp_row, allow_steamed)
\*   -> Result<Option<Box<[MaybeUninit<f_pixel>]>>, liq_error>
\* temp is the returned Option: Some(width) is a one-row buffer
prepare_generated_image(self, allow_steamed) ==
    IF allow_steamed /\ should_use_low_memory(self)
    THEN [self |-> self, temp |-> Some(self.width), cb |-> << >>, ret |-> "Ok"]
    ELSE LET loop == ConvertRowsFrom(self, 0) IN
         IF loop.panic
         THEN [self |-> self, temp |-> None, cb |-> loop.cb, ret |-> "panic"]
         ELSE [self |-> [self EXCEPT !.f_pixels = Some(self.width * self.height)],
               temp |-> None, cb |-> loop.cb, ret |-> "Ok"]

prepare_f_pixels_uncached(self, allow_steamed) ==
    prepare_generated_image(self, allow_steamed)

\* fn prepare_f_pixels(&mut self, temp_row, allow_steamed)
prepare_f_pixels(self, allow_steamed) ==
    IF self.f_pixels # None
    THEN [self |-> self, temp |-> None, cb |-> << >>, ret |-> "Ok"]
    ELSE prepare_generated_image(self, allow_steamed)

\* pub fn rows_iter(&mut self, temp_row) -> Result<DynamicRowsIter, liq_error>
rows_iter(self) ==
    LET p == prepare_f_pixels(self, TRUE)
    IN  [self |-> p.self, cb |-> p.cb, ret |-> p.ret,
         iter |-> IF p.ret = "Ok" THEN Some([temp_f_row |-> p.temp]) ELSE None]

\* pub fn rgba_rows_iter(&self) -> Result<DynamicRowsIter, liq_error>
rgba_rows_iter(self) ==
    IF self.pixels.kind = "Pixels" /\ Len(self.pixels.rows.slice) = 0
    THEN [ret |-> "LIQ_UNSUPPORTED", iter |-> None]
    ELSE [ret |-> "Ok", iter |-> Some([temp_f_row |-> None])]

\* pub fn all_rows_f(&mut self) -> Result<&[f_pixel], liq_error>
all_rows_f(self) ==
    IF self.f_pixels # None
    THEN [self |-> self, cb |-> << >>, ret |-> "Ok"]
    ELSE LET p == prepare_f_pixels(self, FALSE)
         IN  [self |-> p.self, cb |-> p.cb,
              ret |-> IF p.ret # "Ok" THEN p.ret
                      ELSE IF p.self.f_pixels # None THEN "Ok" ELSE "LIQ_UNSUPPORTED"]

OwnRowsIgnoresCallback(self) ==
    IF self.pixels.kind = "Pixels"
    THEN [self |-> [self EXCEPT !.pixels.rows = make_owned(@)], ret |-> "Ok"]
    ELSE [self |-> self, ret |-> "Ok"]

\* the LIQ_OWN_ROWS half of set_memory_ownership
OwnRows(self) ==
    IF self.pixels.kind = "Pixels"
    THEN [self |-> [self EXCEPT !.pixels.rows = make_owned(@)], ret |-> "Ok"]
    ELSE [self |-> self, ret |-> "LIQ_VALUE_OUT_OF_RANGE"]

\* the LIQ_OWN_PIXELS half of set_memory_ownership
OwnPixels(self) ==
    IF self.pixels.kind = "Pixels"
    THEN IF self.pixels.pixels # None
         THEN [self |-> [self EXCEPT !.pixels.pixels = Some(make_owned(@[1]))],
               ret |-> "Ok"]
         ELSE IF Len(self.pixels.rows.slice) = 0
              THEN [self |-> self, ret |-> "LIQ_UNSUPPORTED"]
              ELSE [self |-> [self EXCEPT !.pixels.pixels =
                                Some(c_owned(MinOf(self.pixels.rows.slice),
                                             self.width * self.height))],
                    ret |-> "Ok"]
    ELSE [self |-> self, ret |-> "LIQ_VALUE_OUT_OF_RANGE"]

\* pub(crate) unsafe fn set_memory_ownership(&mut self, ownership_flags)
set_memory_ownership(self, ownership_flags) ==
    LET both == {"LIQ_OWN_ROWS", "LIQ_OWN_PIXELS"} IN
    IF ownership_flags = {} \/ (ownership_flags \cup both) # both
    THEN [self |-> self, ret |-> "LIQ_VALUE_OUT_OF_RANGE"]
    ELSE LET r1 == IF "LIQ_OWN_ROWS" \in ownership_flags THEN OwnRows(self)
                   ELSE [self |-> self, ret |-> "Ok"]
         IN  IF r1.ret # "Ok" THEN r1
             ELSE IF "LIQ_OWN_PIXELS" \in ownership_flags THEN OwnPixels(r1.self)
                  ELSE r1

\* pub fn free_histogram_inputs(&mut self)
free_histogram_inputs_always(self) ==
    [self |-> [self EXCEPT !.pixels = PixelsSource(SeaCowBorrowed(<< >>), None)],
     released |-> TRUE]

free_histogram_inputs(self) ==
    IF self.f_pixels # None
    THEN [self |-> [self EXCEPT !.pixels = PixelsSource(SeaCowBorrowed(<< >>), None)],
          released |-> TRUE]
    ELSE [self |-> self, released |-> FALSE]

\* DynamicRowsIter::row_f(&mut self, temp_row, row) -> &[f_pixel]
row_f(self, it, row) ==
    IF self.f_pixels # None
    THEN [cb |-> << >>, ret |-> "Ok", from |-> "f_pixels"]
    ELSE LET r == row_rgba(self, row) IN
         IF r.panic \/ it.temp_f_row = None
         THEN [cb |-> r.cb, ret |-> "panic", from |-> "none"]
         ELSE [cb |-> r.cb, ret |-> "Ok", from |-> "converted"]

\* DynamicRowsIter::row_f2(&self, temp_row, temp_row_f, row) -> &[f_pixel]
row_f2(self, it, row) ==
    IF self.f_pixels # None
    THEN [cb |-> << >>, ret |-> "Ok", from |-> "f_pixels"]
    ELSE LET r == row_rgba(self, row) IN
         IF r.panic THEN [cb |-> r.cb, ret |-> "panic", from |-> "none"]
         ELSE [cb |-> r.cb, ret |-> "Ok", from |-> "converted"]

\* DynamicRowsIter::row_rgba(&self, temp_row, row) -> &[RGBA]
iter_row_rgba(self, it, row) ==
    LET r == row_rgba(self, row) IN
    IF r.panic THEN [cb |-> r.cb, ret |-> "panic", from |-> "none"]
    ELSE [cb |-> r.cb, ret |-> "Ok", from |-> "rgba"]


(***************************************************************************)
(* SpecRows: one DynamicRows, from DynamicRows::new, under its methods and *)
(* those of the iterator that borrows it                                   *)
(***************************************************************************)

\* image widths: with heights 1..MaxHeight the pixel counts fall below, on and
\* above LIQ_HIGH_MEMORY_LIMIT / size_of::<f_pixel>() = 2^22
Widths == {1, 2 ^ 21, 2 ^ 22 + 1}
MaxHeight == 3

\* the addresses of the rows of a width x height bitmap at address 0, top-down
\* or bottom-up
RowTables(width, height) ==
    { [r \in 1..height |-> (r - 1) * width],
      [r \in 1..height |-> (height - r) * width] }

\* the pixel sources an image is created with: a callback, or a table of
\* height rows (borrowed or owned) with or without the bitmap they point into
Sources(width, height) ==
    {CallbackSource} \cup
    { PixelsSource(rows, pixels) :
        rows \in { SeaCowBorrowed(t) : t \in RowTables(width, height) }
                 \cup { SeaCowOwned(t) : t \in RowTables(width, height) },
        pixels \in { None,
                     Some(SeaCowBorrowed([ptr |-> 0, len |-> width * height])),
                     Some(SeaCowOwned([ptr |-> 0, len |-> width * height])) } }

OwnershipFlags == SUBSET {"LIQ_OWN_ROWS", "LIQ_OWN_PIXELS", "LIQ_COPY_PIXELS"}

IdleAttr ==
    /\ attr = AttributesNew
    /\ accepted = NoneAccepted
    /\ res = [op |-> "new", ret |-> "LIQ_OK", in_range |-> TRUE]

\* DynamicRows::new(width, height, pixels, gamma)
InitRows ==
    /\ \E width \in Widths, height \in 1..MaxHeight :
         \E pixels \in Sources(width, height) :
            img = [width |-> width, height |-> height, f_pixels |-> None,
                   pixels |-> pixels]
    /\ iter = None
    /\ cbLog = << >>
    /\ released = FALSE
    /\ rres = [op |-> "new", ret |-> "Ok", from |-> "none", flags |-> {}]
    /\ IdleAttr
    /\ IdleDrop

\* the methods taking &mut self need the image unborrowed: no iterator alive
RowsIter ==
    /\ iter = None
    /\ LET r == rows_iter(img) IN
        /\ img' = r.self
        /\ iter' = r.iter
        /\ cbLog' = r.cb
        /\ rres' = [op |-> "rows_iter", ret |-> r.ret, from |-> "none", flags |-> {}]
    /\ UNCHANGED <<released, attrVars, dropVars>>

RgbaRowsIter ==
    /\ iter = None
    /\ LET r == rgba_rows_iter(img) IN
        /\ iter' = r.iter
        /\ rres' = [op |-> "rgba_rows_iter", ret |-> r.ret, from |-> "none", flags |-> {}]
    /\ cbLog' = << >>
    /\ UNCHANGED <<img, released, attrVars, dropVars>>

AllRowsF ==
    /\ iter = None
    /\ LET r == all_rows_f(img) IN
        /\ img' = r.self
        /\ cbLog' = r.cb
        /\ rres' = [op |-> "all_rows_f", ret |-> r.ret,
                    from |-> IF r.ret = "Ok" THEN "f_pixels" ELSE "none", flags |-> {}]
    /\ UNCHANGED <<iter, released, attrVars, dropVars>>

SetMemoryOwnership(ownership_flags) ==
    /\ iter = None
    /\ LET r == set_memory_ownership(img, ownership_flags) IN
        /\ img' = r.self
        /\ rres' = [op |-> "set_memory_ownership", ret |-> r.ret, from |-> "none",
                    flags |-> ownership_flags]
    /\ cbLog' = << >>
    /\ UNCHANGED <<iter, released, attrVars, dropVars>>

FreeHistogramInputs ==
    /\ iter = None
    /\ LET r == free_histogram_inputs(img) IN
        /\ img' = r.self
        /\ released' = (released \/ r.released)
    /\ rres' = [op |-> "free_histogram_inputs", ret |-> "unit", from |-> "none",
                flags |-> {}]
    /\ cbLog' = << >>
    /\ UNCHANGED <<iter, attrVars, dropVars>>

\* a row read through the live iterator; a panic unwinds and drops it
IterRead(op, r) ==
    /\ cbLog' = r.cb
    /\ rres' = [op |-> op, ret |-> r.ret, from |-> r.from, flags |-> {}]
    /\ iter' = IF r.ret = "panic" THEN None ELSE iter
    /\ UNCHANGED <<img, released, attrVars, dropVars>>

RowF(row) ==
    /\ iter # None
    /\ IterRead("row_f", row_f(img, iter[1], row))

RowF2(row) ==
    /\ iter # None
    /\ IterRead("row_f2", row_f2(img, iter[1], row))

RowRgba(row) ==
    /\ iter # None
    /\ IterRead("row_rgba", iter_row_rgba(img, iter[1], row))

\* the iterator goes out of scope
DropIter ==
    /\ iter # None
    /\ iter' = None
    /\ cbLog' = << >>
    /\ rres' = [op |-> "drop_iter", ret |-> "unit", from |-> "none", flags |-> {}]
    /\ UNCHANGED <<img, released, attrVars, dropVars>>

NextRows ==
    \/ RowsIter
    \/ RgbaRowsIter
    \/ AllRowsF
    \/ \E ownership_flags \in OwnershipFlags : SetMemoryOwnership(ownership_flags)
    \/ FreeHistogramInputs
    \/ \E row \in 0..(img.height - 1) : RowF(row)
    \/ \E row \in 0..(img.height - 1) : RowF2(row)
    \/ \E row \in 0..(img.height - 1) : RowRgba(row)
    \/ DropIter

SpecRows == InitRows /\ [][NextRows]_vars


(***************************************************************************)
(* Claims on SpecRows                                                      *)
(***************************************************************************)

\* width x height x 16 bytes exceeds 64 MiB
ExceedsHighMemoryLimit(self) == self.width * self.height * 16 > 2 ^ 26

\* C4 as stated: set_memory_ownership with a non-empty subset of
\* OWN_ROWS | OWN_PIXELS on a callback-backed image fails with a State error
\* (Unsupported or BitmapNotAvailable).
C4_CallbackOwnershipIsStateError ==
    ( /\ rres.op = "set_memory_ownership"
      /\ img.pixels.kind = "Callback"
      /\ rres.flags # {}
      /\ rres.flags \subseteq {"LIQ_OWN_ROWS", "LIQ_OWN_PIXELS"} )
    => rres.ret \in {"LIQ_UNSUPPORTED", "LIQ_BITMAP_NOT_AVAILABLE"}

\* C4 as amended: set_memory_ownership with a non-empty subset of
\* OWN_ROWS | OWN_PIXELS on a callback-backed image fails with ValueOutOfRange
\* and leaves the image, its pixel source included, unchanged.
C4_CallbackOwnershipIsOutOfRange ==
    [][ ( /\ rres'.op = "set_memory_ownership"
          /\ img.pixels.kind = "Callback"
          /\ rres'.flags # {}
          /\ rres'.flags \subseteq {"LIQ_OWN_ROWS", "LIQ_OWN_PIXELS"} )
        => /\ rres'.ret = "LIQ_VALUE_OUT_OF_RANGE"
           /\ img' = img ]_vars

\* both flags refused on a callback-backed image
C4_Witness ==
    /\ rres.op = "set_memory_ownership"
    /\ rres.flags = {"LIQ_OWN_ROWS", "LIQ_OWN_PIXELS"}
    /\ rres.ret = "LIQ_VALUE_OUT_OF_RANGE"
    /\ img.pixels = CallbackSource

\* C5: once free_histogram_inputs has released the pixel rows (which needs the
\* float pixels cached), rgba_rows_iter fails with Unsupported in every later
\* state, while rows_iter, all_rows_f and the float-row reads succeed from the
\* cached float pixels without the callback; before the release rgba_rows_iter
\* never fails.
C5_ReleasedRowsStayReleased ==
    /\ released =>
         /\ img.f_pixels # None
         /\ rgba_rows_iter(img).ret = "LIQ_UNSUPPORTED"
         /\ rows_iter(img).ret = "Ok" /\ rows_iter(img).cb = << >>
         /\ all_rows_f(img).ret = "Ok" /\ all_rows_f(img).cb = << >>
    /\ ~released => rgba_rows_iter(img).ret = "Ok"
    /\ rres.op = "rgba_rows_iter" => (rres.ret = "LIQ_UNSUPPORTED" <=> released)
    /\ (released /\ rres.op \in {"rows_iter", "all_rows_f", "row_f", "row_f2"})
         => rres.ret = "Ok"
    /\ (released /\ rres.op \in {"all_rows_f", "row_f", "row_f2"})
         => rres.from = "f_pixels"

\* after the release: rgba_rows_iter has just failed
C5_Witness ==
    /\ released
    /\ rres.op = "rgba_rows_iter"
    /\ rres.ret = "LIQ_UNSUPPORTED"
    /\ img.height = MaxHeight

\* C6 as stated: an image above the 64 MiB threshold never has its float
\* pixels materialized, by any of rows_iter, row_f, row_f2 and all_rows_f.
C6_LargeImageNeverMaterialized ==
    ExceedsHighMemoryLimit(img) => img.f_pixels = None

\* C6 as amended: above the threshold rows_iter, row_f and row_f2 (every call
\* but all_rows_f) leave f_pixels unset, and all_rows_f materializes the float
\* image whatever the size; at or below the threshold the first rows_iter or
\* all_rows_f materializes it.
C6_OnlyAllRowsFMaterializesLarge ==
    [][ /\ ( /\ ExceedsHighMemoryLimit(img)
             /\ img.f_pixels = None
             /\ rres'.op # "all_rows_f" ) => img'.f_pixels = None
        /\ rres'.op = "all_rows_f" => img'.f_pixels = Some(img.width * img.height)
        /\ ( /\ ~ExceedsHighMemoryLimit(img)
             /\ rres'.op = "rows_iter" ) => img'.f_pixels = Some(img.width * img.height)
      ]_vars

\* a large image read row by row through rows_iter: nothing materialized
C6_Witness ==
    /\ ExceedsHighMemoryLimit(img)
    /\ rres.op = "row_f"
    /\ rres.from = "converted"
    /\ img.f_pixels = None

\* C7: no call invokes the row callback twice for a row; the call that
\* materializes the float image of a callback-backed image invokes it exactly
\* once for each row 0..height-1 in ascending order; and once the float image
\* is materialized rows_iter, all_rows_f, row_f and row_f2 never invoke it.
C7_CallbackOncePerRow ==
    [][ /\ \A i, j \in 1..Len(cbLog') : i # j => cbLog'[i] # cbLog'[j]
        /\ ( /\ img.pixels.kind = "Callback"
             /\ img.f_pixels = None
             /\ img'.f_pixels # None ) => cbLog' = [i \in 1..img.height |-> i - 1]
        /\ ( /\ img.f_pixels # None
             /\ rres'.op \in {"rows_iter", "all_rows_f", "row_f", "row_f2"} )
           => cbLog' = << >>
      ]_vars

\* rows_iter has just materialized a callback-backed image of MaxHeight rows
C7_Witness ==
    /\ img.pixels.kind = "Callback"
    /\ img.height = MaxHeight
    /\ img.f_pixels # None
    /\ rres.op = "rows_iter"
    /\ cbLog = [i \in 1..MaxHeight |-> i - 1]


(***************************************************************************)
(* SpecDrop: Attributes handles, created by new() or clone(), given        *)
(* callbacks, used by the library to log, and dropped                      *)
(***************************************************************************)

MaxHandles == 2
Handles == 1..MaxHandles
\* the callback objects callers install
CallbackObjects == {"cb1", "cb2"}

NoEvents == [logged |-> FALSE, flushed |-> FALSE, drop_flush |-> << >>]

InitDrop ==
    /\ handles = [h \in Handles |-> [state |-> "unborn", attr |-> AttributesLiteral]]
    /\ events = [h \in Handles |-> NoEvents]
    /\ IdleAttr
    /\ IdleRows

\* let h = Attributes::new()
NewHandle(h) ==
    /\ handles[h].state = "unborn"
    /\ handles' = [handles EXCEPT ![h] = [state |-> "live", attr |-> AttributesNew]]
    /\ UNCHANGED <<events, attrVars, rowsVars>>

\* let h2 = h.clone()
CloneHandle(h, h2) ==
    /\ handles[h].state = "live"
    /\ handles[h2].state = "unborn"
    /\ handles' = [handles EXCEPT ![h2] = [state |-> "live", attr |-> clone(handles[h].attr)]]
    /\ UNCHANGED <<events, attrVars, rowsVars>>

HandleSetLogCallback(h, callback) ==
    /\ handles[h].state = "live"
    /\ handles' = [handles EXCEPT ![h].attr = set_log_callback(@, callback)]
    /\ UNCHANGED <<events, attrVars, rowsVars>>

HandleSetLogFlushCallback(h, callback) ==
    /\ handles[h].state = "live"
    /\ handles' = [handles EXCEPT ![h].attr = set_log_flush_callback(@, callback)]
    /\ UNCHANGED <<events, attrVars, rowsVars>>

\* the library logs a message on behalf of a handle it was lent
VerbosePrint(h) ==
    /\ handles[h].state = "live"
    /\ events' = [events EXCEPT ![h].logged = @ \/ verbose_print(handles[h].attr) # << >>]
    /\ UNCHANGED <<handles, attrVars, rowsVars>>

\* the library flushes the log of a handle it was lent
VerbosePrintfFlush(h) ==
    /\ handles[h].state = "live"
    /\ events' = [events EXCEPT
                    ![h].flushed = @ \/ verbose_printf_flush(handles[h].attr) # << >>]
    /\ UNCHANGED <<handles, attrVars, rowsVars>>

\* the handle goes out of scope: Drop::drop runs, once
DropHandle(h) ==
    /\ handles[h].state = "live"
    /\ LET d == drop(handles[h].attr) IN
        /\ handles' = [handles EXCEPT ![h] = [state |-> "dropped", attr |-> d.self]]
        /\ events' = [events EXCEPT ![h].drop_flush = @ \o d.flush]
    /\ UNCHANGED <<attrVars, rowsVars>>

NextDrop ==
    \/ \E h \in Handles : NewHandle(h)
    \/ \E h \in Handles, h2 \in Handles : CloneHandle(h, h2)
    \/ \E h \in Handles, callback \in CallbackObjects : HandleSetLogCallback(h, callback)
    \/ \E h \in Handles, callback \in CallbackObjects : HandleSetLogFlushCallback(h, callback)
    \/ \E h \in Handles : VerbosePrint(h)
    \/ \E h \in Handles : VerbosePrintfFlush(h)
    \/ \E h \in Handles : DropHandle(h)

SpecDrop == InitDrop /\ [][NextDrop]_vars

\* C8: dropping a handle invokes its flush callback exactly once when one is
\* set (also on a clone, which shares the callback object) and invokes nothing
\* when none is set; the drop makes no log invocation, no other handle's
\* callbacks are invoked by it, and nothing is invoked on behalf of a handle
\* once it is dropped.
C8_DropFlushesOnce ==
    [][ \A h \in Handles :
          /\ (handles[h].state = "live" /\ handles'[h].state = "dropped") =>
                /\ events'[h].drop_flush =
                     IF handles[h].attr.log_flush_callback # "None"
                     THEN <<handles[h].attr.log_flush_callback>> ELSE << >>
                /\ events'[h].logged = events[h].logged
                /\ events'[h].flushed = events[h].flushed
                /\ \A h2 \in Handles \ {h} : events'[h2] = events[h2]
          /\ handles[h].state = "dropped" =>
                /\ events'[h] = events[h]
                /\ handles'[h] = handles[h]
      ]_vars

\* a handle and its clone, sharing one flush callback, both dropped: one flush
\* each; and a handle dropped with no flush callback
C8_Witness ==
    /\ \E h \in Handles, h2 \in Handles :
         /\ h # h2
         /\ handles[h].state = "dropped" /\ handles[h2].state = "dropped"
         /\ events[h].drop_flush = <<"cb1">> /\ events[h2].drop_flush = <<"cb1">>
         /\ events[h].logged

\* the raw RGBA source is intact (a callback, or a row table with height
\* entries) or the float pixels are cached
PixelsAvailable(self) ==
    \/ self.f_pixels # None
    \/ self.pixels.kind = "Callback"
    \/ /\ self.pixels.kind = "Pixels"
       /\ Len(self.pixels.rows.slice) = self.height

\* C14: in every state reached by rows_iter, all_rows_f, rgba_rows_iter,
\* set_memory_ownership and free_histogram_inputs calls at least one pixel
\* representation is available, the raw RGBA source or the cached float
\* pixels; and cached float pixels, once set, are never cleared or recomputed:
\* no call changes them, converts a row again or invokes the callback for them.
C14_PixelsAlwaysAvailable ==
    /\ [](PixelsAvailable(img))
    /\ [][ img.f_pixels # None =>
             /\ img'.f_pixels = img.f_pixels
             /\ rres'.op \in {"rows_iter", "all_rows_f"} =>
                  /\ rres'.ret = "Ok"
                  /\ cbLog' = << >>
             /\ rres'.op \in {"row_f", "row_f2"} => rres'.from = "f_pixels"
         ]_vars

\* the row table was released with the float pixels cached, and a later
\* rows_iter has succeeded from the cache
C14_Witness ==
    /\ released
    /\ img.f_pixels = Some(img.width * img.height)
    /\ img.pixels.kind = "Pixels"
    /\ Len(img.pixels.rows.slice) = 0
    /\ img.height = MaxHeight
    /\ rres.op = "rows_iter"
    /\ rres.ret = "Ok"

\* C15: whenever set_memory_ownership returns an error, ValueOutOfRange or
\* Unsupported, in any reachable image state, also after free_histogram_inputs
\* has emptied the row table, the ownership state of the row table and of the
\* pixel buffer is the same as before the call: no partial transfer.
C15_FailedOwnershipTransfersNothing ==
    [][ ( /\ rres'.op = "set_memory_ownership"
          /\ rres'.ret # "Ok" )
        => img'.pixels = img.pixels ]_vars

\* both flags on a released image: the call has failed with Unsupported and
\* the emptied row table is owned
C15_Witness ==
    /\ released
    /\ rres.op = "set_memory_ownership"
    /\ rres.flags = {"LIQ_OWN_ROWS", "LIQ_OWN_PIXELS"}
    /\ rres.ret = "LIQ_UNSUPPORTED"
    /\ img.pixels.rows = SeaCowOwned(<< >>)
    /\ img.pixels.pixels = None

====
